---- MODULE Spec2Model ----
(***************************************************************************)
(* Ledger storage and analytics engine of the Financial-Tracker            *)
(* repository: the workbook with the sheets Income, Expenses and Savings,  *)
(* the budget document, the FinanceTracker operations on them and the      *)
(* edit dialog of the window that rewrites the workbook directly.          *)
(*                                                                         *)
(* Text that the code parses or formats is modelled by structure:          *)
(*   - a Month cell is a record [k, m, d]: k = "ym" is the text YYYY-MM of *)
(*     month number m, k = "ymd" the text YYYY-MM-DD of day d of month m,  *)
(*     k = "bad" a text that is no date;                                   *)
(*   - an amount argument is a record [k, v]: k = "num" a Python number    *)
(*     of value v, k = "str" a text that float() parses to v, k = "bad" a  *)
(*     text that float() rejects;                                          *)
(*   - Category and Notes are strings; a workbook cell holding "" is an    *)
(*     empty cell, and NaN stands for the float nan a data frame holds     *)
(*     where the cell was empty or held a text pandas reads as missing.    *)
(***************************************************************************)
EXTENDS Integers, Sequences, FiniteSets, TLC

VARIABLES file, budgets, now, strictDates, pc, dialog, nops, last, hist,
          callers

vars == <<file, budgets, now, strictDates, pc, dialog, nops, last, hist, callers>>

(***************************************************************************)
(* Bounds of the model.                                                    *)
(***************************************************************************)
MaxAppends == 2
MaxOps == 2
MaxMonth == 2

(***************************************************************************)
(* Program constants and values.                                           *)
(***************************************************************************)
sheets == <<"Income", "Expenses", "Savings">>

SheetSet == {sheets[i] : i \in 1..Len(sheets)}

NaN == "<NaN>"

None == [k |-> "none", m |-> 0, d |-> 0]

YM(m) == [k |-> "ym", m |-> m, d |-> 0]

YMD(m, d) == [k |-> "ymd", m |-> m, d |-> d]

BadDate == [k |-> "bad", m |-> 0, d |-> 0]

Num(v) == [k |-> "num", v |-> v]

NumText(v) == [k |-> "str", v |-> v]

BadText == [k |-> "bad", v |-> 0]

\* float('nan'): a number of its own, below every amount of the model, that
\* Python compares false with everything and pandas leaves out of a sum
float_nan == -1000000

NanText == [k |-> "nan", v |-> float_nan]

RECURSIVE SumAmount(_)
SumAmount(df) ==
    IF df = << >> THEN 0
    ELSE IF df[1].Amount = float_nan THEN SumAmount(Tail(df))
    ELSE df[1].Amount + SumAmount(Tail(df))

(***************************************************************************)
(* The workbook: absent, unreadable, or a set of named sheets of rows.     *)
(***************************************************************************)
NoSheets == [s \in {} |-> << >>]

AbsentFile == [state |-> "absent", sheets |-> NoSheets, broken |-> {}]

CorruptFile == [state |-> "corrupt", sheets |-> NoSheets, broken |-> {}]

\* a workbook as written by ExcelWriter: every sheet loads
Workbook(data) == [state |-> "ok", sheets |-> data, broken |-> {}]

NoBudgets == [c \in {} |-> 0]

empty_frame == << >>

(***************************************************************************)
(* pandas / openpyxl conversions.                                          *)
(***************************************************************************)
\* default missing-value texts of the pandas reader that occur in the model
na_values == {"", "nan", "NA"}

\* the worksheet writer leaves a cell empty for None, nan and ""
write_cell(v) == IF v = NaN THEN "" ELSE v

\* the reader returns nan for an empty cell and for a missing-value text
read_cell(c) == IF c \in na_values THEN NaN ELSE c

\* Series.astype(str)
astype_str(v) == IF v = NaN THEN "nan" ELSE v

to_excel_row(r) ==
    [Month |-> r.Month, Amount |-> r.Amount,
     Category |-> write_cell(r.Category), Notes |-> write_cell(r.Notes)]

to_excel(df) == [i \in 1..Len(df) |-> to_excel_row(df[i])]

read_excel_row(r) ==
    [Month |-> r.Month, Amount |-> r.Amount,
     Category |-> read_cell(r.Category), Notes |-> read_cell(r.Notes)]

sheet_names(f) == DOMAIN f.sheets

can_read(f, sheet) ==
    f.state = "ok" /\ sheet \in sheet_names(f) /\ sheet \notin f.broken

read_excel(f, sheet) ==
    [i \in 1..Len(f.sheets[sheet]) |-> read_excel_row(f.sheets[sheet][i])]

\* pd.to_datetime of a Month column raises on a text that is no date and,
\* where the build infers one format from the first element, on a text of
\* another format
to_datetime_raises(col) ==
    \/ \E i \in 1..Len(col) : col[i].k = "bad"
    \/ strictDates /\ \E i \in 1..Len(col) : col[i].k # col[1].k

to_datetime(c) == [m |-> c.m, d |-> IF c.k = "ymd" THEN c.d ELSE 1]

strftime_ym(ts) == YM(ts.m)

\* mutant: the store rejects non-positive amounts as the window does
float_raises_positive_only(a) == a.k = "bad" \/ a.v <= 0

float_raises(a) == a.k = "bad"

float(a) == a.v

(***************************************************************************)
(* FinanceTracker.add_entry                                                *)
(***************************************************************************)
normalize_row(r) ==
    [Month |-> strftime_ym(to_datetime(r.Month)), Amount |-> r.Amount,
     Category |-> astype_str(r.Category), Notes |-> astype_str(r.Notes)]

month_column(df) == [i \in 1..Len(df) |-> df[i].Month]

load_sheet(f, sheet) ==
    IF can_read(f, sheet) /\ ~to_datetime_raises(month_column(read_excel(f, sheet)))
    THEN [i \in 1..Len(read_excel(f, sheet)) |-> normalize_row(read_excel(f, sheet)[i])]
    ELSE empty_frame

entry_date(date) == IF date = None THEN YM(now) ELSE date

new_entry(date, amount, category, notes) ==
    [Month |-> date, Amount |-> float(amount),
     Category |-> category, Notes |-> notes]

concat_entry(df, entry) ==
    IF df = empty_frame THEN <<entry>> ELSE Append(df, entry)

add_entry_data(f, entry_type, amount, category, notes, date) ==
    [s \in SheetSet |->
        IF s = entry_type
        THEN concat_entry(load_sheet(f, s),
                          new_entry(entry_date(date), amount, category, notes))
        ELSE load_sheet(f, s)]

write_all(all_data) == Workbook([s \in DOMAIN all_data |-> to_excel(all_data[s])])

\* mutant: the entry type is not validated first, so the lookup of the target
\* sheet fails inside the try block
add_entry_call_unvalidated(f, entry_type, amount, category, notes, date) ==
    IF float_raises(amount) \/ entry_type \notin SheetSet
    THEN [res |-> "ValueError: adding entry", file |-> f]
    ELSE [res |-> "True",
          file |-> write_all(add_entry_data(f, entry_type, amount,
                                            category, notes, date))]

add_entry_call(f, entry_type, amount, category, notes, date) ==
    IF entry_type \notin SheetSet
    THEN [res |-> "ValueError: entry type", file |-> f]
    ELSE IF float_raises(amount)
    THEN [res |-> "ValueError: adding entry", file |-> f]
    ELSE [res |-> "True",
          file |-> write_all(add_entry_data(f, entry_type, amount,
                                            category, notes, date))]

(***************************************************************************)
(* FinanceTracker.delete_entry                                             *)
(***************************************************************************)
\* DataFrame.drop(index=index).reset_index(drop=True): index is a row label
\* mutant: a negative index counts from the end as a Python list index does
drop_raises_positional(df, index) == index > Len(df) - 1

drop_raises(df, index) == index \notin 0..(Len(df) - 1)

\* mutant: off by one, the row before the given one is removed
drop_previous(df, index) ==
    [i \in 1..(Len(df) - 1) |-> IF i < index THEN df[i] ELSE df[i + 1]]

drop(df, index) ==
    [i \in 1..(Len(df) - 1) |-> IF i <= index THEN df[i] ELSE df[i + 1]]

\* mutant: only the changed sheet is written back
delete_entry_data_target_only(f, sheet_name, index) ==
    [s \in SheetSet \cap {sheet_name} |-> drop(read_excel(f, s), index)]

delete_entry_data(f, sheet_name, index) ==
    [s \in SheetSet |->
        IF s = sheet_name THEN drop(read_excel(f, s), index)
        ELSE read_excel(f, s)]

delete_entry_call(f, sheet_name, index) ==
    IF \/ \E s \in SheetSet : ~can_read(f, s)
       \/ sheet_name \in SheetSet /\ drop_raises(read_excel(f, sheet_name), index)
    THEN [res |-> "False", file |-> f]
    ELSE [res |-> "True",
          file |-> write_all(delete_entry_data(f, sheet_name, index))]

(***************************************************************************)
(* FinanceTracker._initialize_excel_file                                   *)
(***************************************************************************)
new_file_data == [s \in SheetSet |-> empty_frame]

existing_sheets(f) == IF f.state = "ok" THEN sheet_names(f) ELSE {}

missing_sheets(f) == SheetSet \ existing_sheets(f)

\* mutant: the existing sheets are recreated empty with the missing ones
repaired_data_recreated(f) ==
    [s \in existing_sheets(f) \cup missing_sheets(f) |-> empty_frame]

repaired_data(f) ==
    [s \in {e \in existing_sheets(f) : can_read(f, e)} \cup missing_sheets(f) |->
        IF s \in missing_sheets(f) THEN empty_frame ELSE read_excel(f, s)]

initialize_excel_write(f) ==
    IF f.state = "absent" THEN write_all(new_file_data)
    ELSE IF missing_sheets(f) # {} THEN write_all(repaired_data(f))
    ELSE f

initialize_excel_file(f) ==
    LET g == initialize_excel_write(f)
    IN IF g.state = "ok" /\ SheetSet \subseteq sheet_names(g)
       THEN [res |-> "ok", file |-> g]
       ELSE [res |-> "ValueError: initializing", file |-> g]

(***************************************************************************)
(* FinanceTracker.get_monthly_summary                                      *)
(***************************************************************************)
month_filter(df, month) ==
    IF month = None THEN df ELSE SelectSeq(df, LAMBDA r : r.Month = month)

get_monthly_summary(f, month) ==
    [s \in SheetSet |-> SumAmount(month_filter(read_excel(f, s), month))]

(***************************************************************************)
(* FinanceTracker.get_sheet_data / visualize_monthly_data                  *)
(***************************************************************************)
\* df.groupby('Month') after pd.to_datetime: one group per timestamp
month_groups(df) == {to_datetime(df[i].Month) : i \in 1..Len(df)}

group_total(df, ts) ==
    SumAmount(SelectSeq(df, LAMBDA r : to_datetime(r.Month) = ts))

\* sort_values('Month', ascending=True)
RECURSIVE sort_values(_)
sort_values(S) ==
    IF S = {} THEN << >>
    ELSE LET t == CHOOSE t \in S : \A u \in S :
                      t.m < u.m \/ (t.m = u.m /\ t.d <= u.d)
         IN <<t>> \o sort_values(S \ {t})

\* DataFrame.tail(n), n >= 0
tail(seq, n) ==
    IF n >= Len(seq) THEN seq ELSE SubSeq(seq, Len(seq) - n + 1, Len(seq))

monthly_totals(df, months) ==
    LET keys == tail(sort_values(month_groups(df)), months) IN
    [i \in 1..Len(keys) |-> [Month |-> keys[i], Amount |-> group_total(df, keys[i])]]

\* the totals visualize_monthly_data plots for one sheet
visualize_monthly_data(f, sheet, months) ==
    IF ~can_read(f, sheet) \/ to_datetime_raises(month_column(read_excel(f, sheet)))
    THEN [raised |-> TRUE, data |-> << >>]
    ELSE [raised |-> FALSE, data |-> monthly_totals(read_excel(f, sheet), months)]

\* any exception is printed and the empty frame returned
get_sheet_data(f, sheet_name) ==
    IF ~can_read(f, sheet_name)
          \/ to_datetime_raises(month_column(read_excel(f, sheet_name)))
    THEN << >>
    ELSE monthly_totals(read_excel(f, sheet_name), 6)

(***************************************************************************)
(* FinanceTracker.get_trending_categories                                  *)
(***************************************************************************)
\* the category texts of the model in str order (by code point)
str_order ==
    <<"", " RENT ", " Rent ", "Bus", "Food", "Gas", "Gift", "Misc", "Rent",
      "Salary", "food ", "rent">>

str_rank(c) == CHOOSE i \in 1..Len(str_order) : str_order[i] = c

\* df['Month'] >= pd.Timestamp.now() - pd.DateOffset(months=3): a Month
\* parses to midnight of its day, the clock gives the day of the month of
\* now and whether now is midnight to the microsecond
recent(ts, clock) ==
    \/ ts.m > now - 3
    \/ ts.m = now - 3 /\ ts.d > clock.d
    \/ ts.m = now - 3 /\ ts.d = clock.d /\ clock.midnight

recent_df(df, clock) ==
    SelectSeq(df, LAMBDA r : recent(to_datetime(r.Month), clock))

categories_of(df) ==
    {df[i].Category : i \in 1..Len(df)} \ {NaN}

\* the group keys in the order of their first row
RECURSIVE groupby_keys_unsorted(_)
groupby_keys_unsorted(df) ==
    IF df = << >> THEN << >>
    ELSE LET keys == groupby_keys_unsorted(SubSeq(df, 1, Len(df) - 1))
             c == df[Len(df)].Category
         IN IF c = NaN \/ \E i \in 1..Len(keys) : keys[i] = c
            THEN keys ELSE Append(keys, c)

\* groupby('Category') sorts the group keys and drops the missing ones
RECURSIVE sort_keys(_)
sort_keys(S) ==
    IF S = {} THEN << >>
    ELSE LET c == CHOOSE c \in S : \A d \in S : str_rank(c) <= str_rank(d)
         IN <<c>> \o sort_keys(S \ {c})

groupby_keys(df) == sort_keys(categories_of(df))

\* recent_df.groupby('Category')['Amount'].sum()
category_total(df, category) ==
    SumAmount(SelectSeq(df, LAMBDA r : r.Category = category))

\* Series.nlargest(n), keep='first': the greatest value first, equal values
\* in the order of the series
RECURSIVE nlargest(_, _, _)
nlargest(n, keys, df) ==
    IF n = 0 \/ keys = << >> THEN << >>
    ELSE LET i == CHOOSE i \in 1..Len(keys) :
                    \A j \in 1..Len(keys) :
                        \/ category_total(df, keys[j]) < category_total(df, keys[i])
                        \/ /\ category_total(df, keys[j]) = category_total(df, keys[i])
                           /\ i <= j
         IN <<[cat |-> keys[i], total |-> category_total(df, keys[i])]>>
                \o nlargest(n - 1,
                            SubSeq(keys, 1, i - 1) \o SubSeq(keys, i + 1, Len(keys)),
                            df)

top_categories(df, clock) ==
    nlargest(3, groupby_keys(recent_df(df, clock)), recent_df(df, clock))

get_trending_categories(f, clock) ==
    IF \E s \in SheetSet :
          \/ ~can_read(f, s)
          \/ to_datetime_raises(month_column(read_excel(f, s)))
    THEN [raised |-> TRUE, top |-> [s \in SheetSet |-> << >>]]
    ELSE [raised |-> FALSE,
          top |-> [s \in SheetSet |-> top_categories(read_excel(f, s), clock)]]

(***************************************************************************)
(* str.strip() and str.lower() on the category texts of the model.         *)
(***************************************************************************)
strip(s) ==
    CASE s = " " -> ""
      [] s = " Rent " -> "Rent"
      [] s = " RENT " -> "RENT"
      [] s = " rent " -> "rent"
      [] s = "food " -> "food"
      [] OTHER -> s

lower(s) ==
    CASE s = "Rent" -> "rent"
      [] s = " Rent " -> " rent "
      [] s = " RENT " -> " rent "
      [] s = "RENT" -> "rent"
      [] s = "Food" -> "food"
      [] s = "Gas" -> "gas"
      [] s = "Bus" -> "bus"
      [] s = "Misc" -> "misc"
      [] s = "Salary" -> "salary"
      [] s = "Gift" -> "gift"
      [] OTHER -> s

(***************************************************************************)
(* FinanceTracker.set_budget / remove_budget / get_budget_status           *)
(***************************************************************************)
\* budgets[category] = amount, on the mapping loaded from the budget file
set_budget_map_folded(b, category, amount) ==
    [c \in DOMAIN b \cup {strip(lower(category))} |->
        IF c = strip(lower(category)) THEN amount ELSE b[c]]

set_budget_map(b, category, amount) ==
    [c \in DOMAIN b \cup {category} |-> IF c = category THEN amount ELSE b[c]]

\* if category in budgets: del budgets[category]
remove_budget_map_folded(b, category) ==
    [c \in {k \in DOMAIN b : strip(lower(k)) # strip(lower(category))} |-> b[c]]

remove_budget_map(b, category) ==
    [c \in DOMAIN b \ {category} |-> b[c]]

\* return budgets if budgets else None
get_budget_status_never_none(b) == [none |-> FALSE, budgets |-> b]

get_budget_status(b) ==
    IF DOMAIN b = {} THEN [none |-> TRUE, budgets |-> NoBudgets]
    ELSE [none |-> FALSE, budgets |-> b]

\* set_budget opens, reads and writes self.budget_file only
set_budget_call_rewriting(f, b, category, amount) ==
    [res |-> "True", budgets |-> set_budget_map(b, category, amount),
     file |-> write_all([s \in SheetSet |-> load_sheet(f, s)])]

set_budget_call(f, b, category, amount) ==
    [res |-> "True", budgets |-> set_budget_map(b, category, amount), file |-> f]

(***************************************************************************)
(* FinanceTracker.get_all_categories                                       *)
(***************************************************************************)
\* fillna('').astype(str), then the texts other than '' and 'nan', sorted;
\* any exception is printed and [] returned
get_all_categories(f) ==
    IF \E s \in SheetSet : ~can_read(f, s) THEN << >>
    ELSE sort_keys(UNION {categories_of(read_excel(f, s)) : s \in SheetSet}
                       \ {"", "nan"})

(***************************************************************************)
(* FinanceTracker.analyze_category                                         *)
(***************************************************************************)
\* df[df['Category'] == category]
cat_data_folded(df, category) ==
    SelectSeq(df, LAMBDA r : /\ r.Category # NaN
                             /\ strip(lower(r.Category)) = strip(lower(category)))

cat_data(df, category) == SelectSeq(df, LAMBDA r : r.Category = category)

\* the sheets reported, each with sum() and mean() of the Amount column;
\* the mean is kept as the fraction sum / count
analyze_category(f, category) ==
    IF \E s \in SheetSet : ~can_read(f, s)
    THEN [raised |-> TRUE, report |-> [s \in {} |-> 0]]
    ELSE [raised |-> FALSE,
          report |->
            [s \in {t \in SheetSet : cat_data(read_excel(f, t), category) # << >>} |->
                [total |-> SumAmount(cat_data(read_excel(f, s), category)),
                 mean |-> [num |-> SumAmount(cat_data(read_excel(f, s), category)),
                           den |-> Len(cat_data(read_excel(f, s), category))]]]]

(***************************************************************************)
(* FinanceTrackerGUI.show_budget_status                                    *)
(***************************************************************************)
\* the .str accessor raises on a Category column that holds no text at all
str_raises(df) == df # << >> /\ \A i \in 1..Len(df) : df[i].Category = NaN

\* df[df['Month'] == current_month], Month brought to '%Y-%m' first
current_expenses_any_month(df, current_month) == df

current_expenses(df, current_month) ==
    SelectSeq(df, LAMBDA r : strftime_ym(to_datetime(r.Month)) = current_month)

\* Category.str.lower().str.strip() == category.lower().strip()
category_expenses(df, category) ==
    SelectSeq(df, LAMBDA r : /\ r.Category # NaN
                             /\ strip(lower(r.Category)) = strip(lower(category)))

\* if remaining < 0: "WARNING: Over budget!"
over_budget_or_spent_up(remaining) == remaining <= 0

over_budget(remaining) == remaining < 0

budget_line(df, category, budget) ==
    LET spent == SumAmount(category_expenses(df, category)) IN
    [spent |-> spent, remaining |-> budget - spent,
     warning |-> over_budget(budget - spent)]

show_budget_status(f, b, current_month) ==
    IF get_budget_status(b).none
    THEN [kind |-> "no budgets", lines |-> [c \in {} |-> 0]]
    ELSE IF \/ ~can_read(f, "Expenses")
            \/ to_datetime_raises(month_column(read_excel(f, "Expenses")))
            \/ str_raises(read_excel(f, "Expenses"))
    THEN [kind |-> "error", lines |-> [c \in {} |-> 0]]
    ELSE [kind |-> "status",
          lines |-> [c \in DOMAIN get_budget_status(b).budgets |->
                        budget_line(current_expenses(read_excel(f, "Expenses"),
                                                     current_month),
                                    c, get_budget_status(b).budgets[c])]]

(***************************************************************************)
(* FinanceTrackerGUI.edit_selected_entry / save_changes                    *)
(***************************************************************************)
iloc_raises(df, index) == index \notin 0..(Len(df) - 1)

\* amount <= 0 in Python: false when the amount is nan
not_positive(v) == v # float_nan /\ v <= 0

\* float(...) raises or "Amount must be positive" is raised
save_amount_rejected(amount) == float_raises(amount) \/ not_positive(float(amount))

set_at(df, index, amount, category, notes) ==
    [i \in 1..Len(df) |->
        IF i = index + 1
        THEN [Month |-> df[i].Month, Amount |-> float(amount),
              Category |-> category, Notes |-> notes]
        ELSE df[i]]

save_changes_data(f, dlg, amount, category, notes) ==
    [s \in SheetSet |->
        IF s = dlg.sheet
        THEN set_at(dlg.df, dlg.index, amount, strip(category), notes)
        ELSE read_excel(f, s)]

(***************************************************************************)
(* History of the last call, for stating the contracts.                    *)
(***************************************************************************)
NoCall ==
    [op |-> "none", sheet |-> "", index |-> 0, amount |-> Num(0),
     category |-> "", notes |-> "", date |-> None, res |-> "",
     pre |-> AbsentFile, preBudgets |-> NoBudgets]

Call(op, sheet, index, amount, category, notes, date, res) ==
    [op |-> op, sheet |-> sheet, index |-> index, amount |-> amount,
     category |-> category, notes |-> notes, date |-> date, res |-> res,
     pre |-> file, preBudgets |-> budgets]

NoDialog == [open |-> FALSE, sheet |-> "", index |-> 0, df |-> << >>]

\* a second way into add_entry and delete_entry: callers that share the
\* workbook and run the calls read by read, then write
CallerSet == {"a", "b"}

NoCaller ==
    [pc |-> "idle", op |-> "", sheet |-> "", index |-> 0, amount |-> Num(0),
     category |-> "", notes |-> "", date |-> None, next |-> 1,
     all_data |-> [s \in SheetSet |-> << >>], res |-> "",
     base |-> AbsentFile, began |-> 0, wrote |-> 0, overtaken |-> FALSE,
     mixed |-> FALSE]

NoCallers == [c \in CallerSet |-> NoCaller]

\* per ledger: the sum and the number of the amounts appended successfully,
\* and whether anything but an append has written the workbook
NoHist == [sum |-> [s \in SheetSet |-> 0], cnt |-> [s \in SheetSet |-> 0],
           onlyAppends |-> TRUE]

(***************************************************************************)
(* Actions.                                                                *)
(***************************************************************************)
\* FinanceTracker.__init__
init_tracker ==
    /\ pc = "new"
    /\ LET r == initialize_excel_file(file)
       IN /\ file' = r.file
          /\ pc' = IF r.res = "ok" THEN "ready" ELSE "failed"
          /\ last' = Call("init", "", 0, Num(0), "", "", None, r.res)
    /\ UNCHANGED <<budgets, now, strictDates, dialog, nops, hist, callers>>

add_entry(entry_type, amount, category, notes, date) ==
    /\ pc = "ready"
    /\ LET r == add_entry_call(file, entry_type, amount, category, notes, date)
       IN /\ file' = r.file
          /\ last' = Call("add_entry", entry_type, 0, amount, category, notes,
                          date, r.res)
          /\ hist' = IF r.res = "True"
                     THEN [hist EXCEPT !.sum[entry_type] = @ + float(amount),
                                       !.cnt[entry_type] = @ + 1]
                     ELSE hist
    /\ nops' = nops + 1
    /\ UNCHANGED <<budgets, now, strictDates, pc, dialog, callers>>

delete_entry(sheet_name, index) ==
    /\ pc = "ready"
    /\ LET r == delete_entry_call(file, sheet_name, index)
       IN /\ file' = r.file
          /\ last' = Call("delete_entry", sheet_name, index, Num(0), "", "",
                          None, r.res)
          /\ hist' = IF r.res = "True"
                     THEN [hist EXCEPT !.onlyAppends = FALSE] ELSE hist
    /\ nops' = nops + 1
    /\ UNCHANGED <<budgets, now, strictDates, pc, dialog, callers>>

edit_selected_entry(sheet, index) ==
    /\ pc = "ready"
    /\ ~dialog.open
    /\ IF can_read(file, sheet) /\ ~iloc_raises(read_excel(file, sheet), index)
       THEN /\ dialog' = [open |-> TRUE, sheet |-> sheet, index |-> index,
                          df |-> read_excel(file, sheet)]
            /\ last' = Call("edit_selected_entry", sheet, index, Num(0), "",
                            "", None, "dialog")
       ELSE /\ dialog' = dialog
            /\ last' = Call("edit_selected_entry", sheet, index, Num(0), "",
                            "", None, "error: edit")
    /\ UNCHANGED <<file, budgets, now, strictDates, pc, nops, hist, callers>>

save_changes(amount, category, notes) ==
    /\ pc = "ready"
    /\ dialog.open
    /\ IF save_amount_rejected(amount)
       THEN /\ last' = Call("save_changes", dialog.sheet, dialog.index, amount,
                            category, notes, None, "error: amount")
            /\ UNCHANGED <<file, dialog, hist>>
       ELSE IF strip(category) = ""
       THEN /\ last' = Call("save_changes", dialog.sheet, dialog.index, amount,
                            category, notes, None, "error: category")
            /\ UNCHANGED <<file, dialog, hist>>
       ELSE IF \E s \in SheetSet \ {dialog.sheet} : ~can_read(file, s)
       THEN /\ last' = Call("save_changes", dialog.sheet, dialog.index, amount,
                            category, notes, None, "error: update")
            /\ UNCHANGED <<file, dialog, hist>>
       ELSE /\ file' = write_all(save_changes_data(file, dialog, amount,
                                                   category, notes))
            /\ dialog' = NoDialog
            /\ hist' = [hist EXCEPT !.onlyAppends = FALSE]
            /\ last' = Call("save_changes", dialog.sheet, dialog.index, amount,
                            category, notes, None, "ok")
    /\ nops' = nops + 1
    /\ UNCHANGED <<budgets, now, strictDates, pc, callers>>

\* the dialog window is closed without saving
close_dialog ==
    /\ dialog.open
    /\ dialog' = NoDialog
    /\ UNCHANGED <<file, budgets, now, strictDates, pc, nops, last, hist, callers>>

set_budget(category, amount) ==
    /\ pc = "ready"
    /\ LET r == set_budget_call(file, budgets, category, amount)
       IN /\ budgets' = r.budgets
          /\ file' = r.file
          /\ last' = Call("set_budget", "", 0, Num(amount), category, "", None,
                          r.res)
    /\ UNCHANGED <<now, strictDates, pc, dialog, nops, hist, callers>>

remove_budget(category) ==
    /\ pc = "ready"
    /\ budgets' = remove_budget_map(budgets, category)
    /\ last' = Call("remove_budget", "", 0, Num(0), category, "", None, "True")
    /\ UNCHANGED <<file, now, strictDates, pc, dialog, nops, hist, callers>>

\* FinanceTrackerGUI.add_entry: the texts of the form are checked, then the
\* tracker is called without a date
gui_add_entry(entry_type, amount, category, notes) ==
    /\ pc = "ready"
    /\ IF save_amount_rejected(amount)
       THEN /\ last' = Call("gui_add_entry", entry_type, 0, amount, category,
                            notes, None, "error: amount")
            /\ UNCHANGED <<file, hist>>
       ELSE IF strip(category) = ""
       THEN /\ last' = Call("gui_add_entry", entry_type, 0, amount, category,
                            notes, None, "error: category")
            /\ UNCHANGED <<file, hist>>
       ELSE LET r == add_entry_call(file, entry_type, Num(float(amount)),
                                    strip(category), notes, None)
            IN /\ file' = r.file
               /\ last' = Call("gui_add_entry", entry_type, 0, amount, category,
                               notes, None, r.res)
               /\ hist' = IF r.res = "True"
                          THEN [hist EXCEPT !.sum[entry_type] = @ + float(amount),
                                            !.cnt[entry_type] = @ + 1]
                          ELSE hist
    /\ nops' = nops + 1
    /\ UNCHANGED <<budgets, now, strictDates, pc, dialog, callers>>

\* FinanceTrackerGUI.set_budget: the category is checked first, then the
\* amount, then the tracker is called
gui_set_budget(category, amount) ==
    /\ pc = "ready"
    /\ IF strip(category) = ""
       THEN /\ last' = Call("gui_set_budget", "", 0, amount, category, "", None,
                            "error: category")
            /\ UNCHANGED <<file, budgets>>
       ELSE IF save_amount_rejected(amount)
       THEN /\ last' = Call("gui_set_budget", "", 0, amount, category, "", None,
                            "error: budget")
            /\ UNCHANGED <<file, budgets>>
       ELSE LET r == set_budget_call(file, budgets, strip(category), float(amount))
            IN /\ budgets' = r.budgets
               /\ file' = r.file
               /\ last' = Call("gui_set_budget", "", 0, amount, category, "",
                               None, r.res)
    /\ UNCHANGED <<now, strictDates, pc, dialog, nops, hist, callers>>

\* the queries open the workbook and the budget file for reading only
after_query_rewritten(f) == write_all([s \in SheetSet |-> load_sheet(f, s)])

after_query(f) == f

query(op, sheet, category, month) ==
    /\ pc = "ready"
    /\ file' = after_query(file)
    /\ last' = Call(op, sheet, 0, Num(0), category, "", month, "done")
    /\ UNCHANGED <<budgets, now, strictDates, pc, dialog, nops, hist, callers>>

\* a caller enters add_entry or delete_entry with arguments that pass the
\* checks made before the first read; the default date is taken here
enter(c, op, sheet, index, x) ==
    /\ pc = "ready"
    /\ callers[c].pc = "idle"
    /\ callers' = [callers EXCEPT ![c] =
          [NoCaller EXCEPT !.pc = "reading", !.op = op, !.sheet = sheet,
                           !.index = index, !.amount = x.amount,
                           !.category = x.category, !.notes = x.notes,
                           !.date = entry_date(x.date), !.base = file,
                           !.began = nops]]
    /\ UNCHANGED <<file, budgets, now, strictDates, pc, dialog, nops, last, hist>>

\* what one pass of the loop over self.sheets puts into all_data
sheet_loaded(k, f, s) ==
    IF k.op = "add_entry" THEN load_sheet(f, s)
    ELSE IF s = k.sheet THEN drop(read_excel(f, s), k.index)
    ELSE read_excel(f, s)

sheet_raises(k, f, s) ==
    /\ k.op = "delete_entry"
    /\ \/ ~can_read(f, s)
       \/ s = k.sheet /\ drop_raises(read_excel(f, s), k.index)

\* one pass of the loop: pd.read_excel of the next sheet
read_sheet(c) ==
    /\ callers[c].pc = "reading"
    /\ LET k == callers[c]
           s == sheets[k.next]
       IN callers' = [callers EXCEPT ![c] =
             IF sheet_raises(k, file, s)
             THEN [k EXCEPT !.pc = "returned", !.res = "False"]
             ELSE [k EXCEPT !.all_data[s] = sheet_loaded(k, file, s),
                            !.next = k.next + 1,
                            !.pc = IF k.next = Len(sheets) THEN "write"
                                   ELSE "reading"]]
    /\ UNCHANGED <<file, budgets, now, strictDates, pc, dialog, nops, last, hist>>

\* all_data as it is written: add_entry puts the new entry on its sheet
written_data(k) ==
    IF k.op = "add_entry"
    THEN [s \in SheetSet |->
            IF s = k.sheet
            THEN concat_entry(k.all_data[s],
                              new_entry(k.date, k.amount, k.category, k.notes))
            ELSE k.all_data[s]]
    ELSE k.all_data

\* the pd.ExcelWriter block: the whole workbook is written from all_data
write_sheets(c) ==
    /\ callers[c].pc = "write"
    /\ file' = write_all(written_data(callers[c]))
    /\ nops' = nops + 1
    /\ callers' = [d \in CallerSet |->
          IF d = c
          THEN [callers[c] EXCEPT !.pc = "returned", !.res = "True",
                                  !.wrote = nops + 1]
          ELSE [callers[d] EXCEPT
                   !.overtaken = @ \/ callers[d].pc = "write",
                   !.mixed = @ \/ (callers[d].pc = "reading" /\ callers[d].next > 1)]]
    /\ last' = Call(callers[c].op, callers[c].sheet, callers[c].index,
                    callers[c].amount, callers[c].category, callers[c].notes,
                    callers[c].date, "True")
    /\ hist' = IF callers[c].op = "add_entry"
               THEN [hist EXCEPT !.sum[callers[c].sheet] = @ + float(callers[c].amount),
                                 !.cnt[callers[c].sheet] = @ + 1]
               ELSE [hist EXCEPT !.onlyAppends = FALSE]
    /\ UNCHANGED <<budgets, now, strictDates, pc, dialog>>

\* the calendar month changes
tick ==
    /\ now < MaxMonth
    /\ now' = now + 1
    /\ UNCHANGED <<file, budgets, strictDates, pc, dialog, nops, last, hist, callers>>

(***************************************************************************)
(* Inputs.                                                                 *)
(***************************************************************************)
EntryTypes == SheetSet \cup {"Other"}

Args(amount, category, notes, date) ==
    [amount |-> amount, category |-> category, notes |-> notes, date |-> date]

Row(month, amount, category, notes) ==
    [Month |-> month, Amount |-> amount, Category |-> category, Notes |-> notes]

Amounts == {Num(5), Num(0), Num(-2), NumText(3), BadText}

Dates == {YM(2), YMD(1, 15), BadDate}

\* add_entry arguments: every amount with the default date, every date with
\* a second category and empty notes
AppendArgs ==
    {Args(a, "Rent", "paid", None) : a \in Amounts}
        \cup {Args(Num(7), "Food", "", d) : d \in Dates}

StoreArgs ==
    {Args(Num(5), "Rent", "paid", None), Args(Num(7), "Food", "", YMD(1, 15))}

DeleteArgs == (SheetSet \X (-1..2)) \cup {<<"Other", 0>>}

EditArgs == (SheetSet \X (0..2)) \cup {<<"Other", 0>>}

SaveArgs ==
    {Args(Num(9), "Misc", "edited", None), Args(NumText(8), " Rent ", "", None),
     Args(Num(0), "Misc", "", None), Args(BadText, "Misc", "", None),
     Args(Num(9), " ", "", None)}

\* a workbook as earlier runs of the program left it
StoredFile ==
    Workbook([s \in SheetSet |->
        CASE s = "Income" -> <<Row(YM(1), 5000, "Salary", "nan"),
                               Row(YM(1), 200, "Gift", "thanks")>>
          [] s = "Expenses" -> <<Row(YM(1), 1500, "Rent", "paid")>>
          [] OTHER -> << >>])

(***************************************************************************)
(* Specifications.                                                         *)
(***************************************************************************)
InitWith(files) ==
    /\ file \in files
    /\ budgets = NoBudgets
    /\ now = 1
    /\ strictDates \in BOOLEAN
    /\ pc = "new"
    /\ dialog = NoDialog
    /\ nops = 0
    /\ last = NoCall
    /\ hist = NoHist
    /\ callers = NoCallers

\* the record store from empty storage, under appends only
InitAppend == InitWith({AbsentFile})

NextAppend ==
    \/ init_tracker
    \/ /\ nops < MaxAppends
       /\ \E t \in SheetSet, x \in AppendArgs :
             add_entry(t, x.amount, x.category, x.notes, x.date)
    \/ /\ nops < MaxAppends
       /\ add_entry("Other", Num(5), "Rent", "paid", None)
    \/ set_budget("Rent", 500)
    \/ remove_budget("Rent")
    \/ tick

SpecAppend == InitAppend /\ [][NextAppend]_vars

\* the record store under appends, deletes and edits
Init == InitWith({AbsentFile, StoredFile})

Next ==
    \/ init_tracker
    \/ /\ nops < MaxOps
       /\ \E t \in SheetSet, x \in StoreArgs :
             add_entry(t, x.amount, x.category, x.notes, x.date)
    \/ /\ nops < MaxOps
       /\ \E x \in DeleteArgs : delete_entry(x[1], x[2])
    \/ \E x \in EditArgs : edit_selected_entry(x[1], x[2])
    \/ /\ nops < MaxOps
       /\ \E x \in SaveArgs : save_changes(x.amount, x.category, x.notes)
    \/ close_dialog

Spec == Init /\ [][Next]_vars

(***************************************************************************)
(* Storage that the constructor may find: no workbook, a workbook that     *)
(* cannot be opened, or a workbook in which each of Sheet1, Income,        *)
(* Expenses and Savings is missing, empty, filled, or listed but failing   *)
(* to load.                                                                *)
(***************************************************************************)
FoundSheets == SheetSet \cup {"Sheet1"}

FoundRows(s) ==
    CASE s = "Income" -> <<Row(YM(1), 5000, "Salary", "")>>
      [] s = "Expenses" -> <<Row(YM(1), 1500, "Rent", "nan"), Row(YMD(2, 15), 500, "Food", "x")>>
      [] s = "Savings" -> <<Row(BadDate, 1000, "NA", "x")>>
      [] OTHER -> <<Row(YM(1), 1, "a", "b")>>

SheetConditions == {"missing", "empty", "filled", "broken"}

FoundWorkbook(cond) ==
    [state |-> "ok",
     sheets |-> [s \in {x \in FoundSheets : cond[x] # "missing"} |->
                    IF cond[s] = "empty" THEN << >> ELSE FoundRows(s)],
     broken |-> {x \in FoundSheets : cond[x] = "broken"}]

FoundFiles ==
    {AbsentFile, CorruptFile}
        \cup {FoundWorkbook(cond) : cond \in
                 {c \in [FoundSheets -> SheetConditions] :
                     \E x \in FoundSheets : c[x] # "missing"}}

InitFound == InitWith(FoundFiles)

NextInit == init_tracker

SpecInit == InitFound /\ [][NextInit]_vars

(***************************************************************************)
(* The budget store under set and remove.                                  *)
(***************************************************************************)
BudgetKeys == {"Rent", "rent", " Rent ", ""}

BudgetAmounts == {500, 40, 0, -5}

InitBudget == InitWith({AbsentFile})

NextBudget ==
    \/ init_tracker
    \/ \E c \in BudgetKeys, a \in BudgetAmounts : set_budget(c, a)
    \/ \E c \in BudgetKeys : remove_budget(c)

SpecBudget == InitBudget /\ [][NextBudget]_vars

(***************************************************************************)
(* Budgets against the expenses of the current month.                      *)
(***************************************************************************)
MaxStatusAppends == 3

\* a workbook as earlier runs left it: rent paid in an earlier month, and
\* an income of the same category in the current one
StatusFile ==
    Workbook([s \in SheetSet |->
        CASE s = "Income" -> <<Row(YM(1), 700, "Rent", "nan")>>
          [] s = "Expenses" -> <<Row(YM(0), 1000, "Rent", "nan")>>
          [] OTHER -> << >>])

StatusArgs ==
    {Args(Num(300), "Rent", "", None), Args(Num(100), " RENT ", "", None),
     Args(Num(200), "Rent", "", None), Args(Num(50), "", "", YMD(1, 15))}

StatusBudgets == {<<"Rent", 500>>, <<"food ", 40>>}

InitStatus == InitWith({StatusFile})

NextStatus ==
    \/ init_tracker
    \/ /\ nops < MaxStatusAppends
       /\ \E x \in StatusArgs :
             add_entry("Expenses", x.amount, x.category, x.notes, x.date)
    \/ \E x \in StatusBudgets : set_budget(x[1], x[2])
    \/ remove_budget("food ")
    \/ tick

SpecStatus == InitStatus /\ [][NextStatus]_vars

(***************************************************************************)
(* Trending categories of the ledgers.                                     *)
(***************************************************************************)
MaxTrendAppends == 4

TrendArgs ==
    {<<"Expenses", Args(Num(5), "Rent", "", None)>>,
     <<"Expenses", Args(Num(5), "Food", "", None)>>,
     <<"Expenses", Args(Num(7), "Gas", "", None)>>,
     <<"Expenses", Args(Num(5), "Bus", "", None)>>,
     <<"Expenses", Args(Num(7), "Food", "", YM(9))>>,
     <<"Expenses", Args(Num(3), "Rent", "", YM(-5))>>,
     <<"Income", Args(Num(5), "Salary", "", None)>>}

\* the day of the month and the time of day at which the query runs
Clocks == {[d |-> 1, midnight |-> TRUE], [d |-> 15, midnight |-> FALSE]}

InitTrend == InitWith({AbsentFile})

NextTrend ==
    \/ init_tracker
    \/ /\ nops < MaxTrendAppends
       /\ \E x \in TrendArgs :
             add_entry(x[1], x[2].amount, x[2].category, x[2].notes, x[2].date)

SpecTrend == InitTrend /\ [][NextTrend]_vars

(***************************************************************************)
(* Both stores under every mutation, with the queries in between.          *)
(***************************************************************************)
MaxStoreOps == 2

StoresAdds ==
    {<<"Expenses", Args(Num(5), "Rent", "paid", None)>>,
     <<"Savings", Args(Num(7), "Food", "", YMD(1, 15))>>}

StoresDeletes == {<<"Expenses", 0>>, <<"Income", 1>>, <<"Income", 5>>}

StoresEdits == {<<"Expenses", 0>>, <<"Income", 0>>}

StoresSaves ==
    {Args(Num(9), "Misc", "edited", None), Args(Num(0), "Misc", "", None)}

StoresBudgets == {<<"Rent", 500>>, <<"Misc", 40>>}

Queries ==
    {<<"get_monthly_summary", "", "", YM(1)>>,
     <<"get_sheet_data", "Income", "", None>>,
     <<"get_all_categories", "", "", None>>,
     <<"analyze_category", "", "Rent", None>>,
     <<"get_trending_categories", "", "", None>>,
     <<"show_budget_status", "", "", None>>}

InitStores == InitWith({StoredFile})

NextStores ==
    \/ init_tracker
    \/ /\ nops < MaxStoreOps
       /\ \E x \in StoresAdds :
             add_entry(x[1], x[2].amount, x[2].category, x[2].notes, x[2].date)
    \/ /\ nops < MaxStoreOps
       /\ \E x \in StoresDeletes : delete_entry(x[1], x[2])
    \/ \E x \in StoresEdits : edit_selected_entry(x[1], x[2])
    \/ /\ nops < MaxStoreOps
       /\ \E x \in StoresSaves : save_changes(x.amount, x.category, x.notes)
    \/ close_dialog
    \/ \E x \in StoresBudgets : set_budget(x[1], x[2])
    \/ remove_budget("Rent")
    \/ \E q \in Queries : query(q[1], q[2], q[3], q[4])

SpecStores == InitStores /\ [][NextStores]_vars

(***************************************************************************)
(* Two callers on one workbook.                                            *)
(***************************************************************************)
RaceCalls ==
    {<<"add_entry", "Income", 0, Args(Num(5), "Rent", "paid", None)>>,
     <<"add_entry", "Expenses", 0, Args(Num(7), "Food", "", BadDate)>>,
     <<"delete_entry", "Income", 0, Args(Num(0), "", "", None)>>,
     <<"delete_entry", "Savings", 0, Args(Num(0), "", "", None)>>}

InitRace == InitWith({StoredFile})

NextRace ==
    \/ init_tracker
    \/ \E c \in CallerSet, x \in RaceCalls : enter(c, x[1], x[2], x[3], x[4])
    \/ \E c \in CallerSet : read_sheet(c)
    \/ \E c \in CallerSet : write_sheets(c)

SpecRace == InitRace /\ [][NextRace]_vars

(***************************************************************************)
(* The window: every store operation goes through its handlers.            *)
(***************************************************************************)
MaxShellOps == 2

AmountTexts == {NumText(5), NumText(0), NumText(-2), BadText, NanText}

CategoryTexts == {"Rent", " Rent ", " "}

InitShell == InitWith({AbsentFile})

NextShell ==
    \/ init_tracker
    \/ /\ nops < MaxShellOps
       /\ \E a \in AmountTexts, c \in CategoryTexts :
             gui_add_entry("Expenses", a, c, "")
    \/ /\ nops < MaxShellOps
       /\ \E i \in 0..1 : delete_entry("Expenses", i)
    \/ \E i \in 0..1 : edit_selected_entry("Expenses", i)
    \/ /\ nops < MaxShellOps
       /\ \E a \in AmountTexts, c \in CategoryTexts : save_changes(a, c, "edited")
    \/ close_dialog
    \/ \E a \in AmountTexts, c \in CategoryTexts : gui_set_budget(c, a)
    \/ remove_budget("Rent")

SpecShell == InitShell /\ [][NextShell]_vars

(***************************************************************************)
(* Claims.                                                                 *)
(***************************************************************************)
read(ledger) == read_excel(file, ledger)

read_before(ledger) == read_excel(last.pre, ledger)

Appended == last.op = "add_entry" /\ last.res = "True"

InRange(df, index) == index \in 0..(Len(df) - 1)

\* C1: after a successful append the ledger read is the former read with one
\* more record at the end, whose amount is the input; the former records keep
\* their position, period, amount, category and notes.
C1_AppendIsLastAndKeepsOthers ==
    Appended =>
        /\ Len(read(last.sheet)) = Len(read_before(last.sheet)) + 1
        /\ read(last.sheet)[Len(read(last.sheet))].Amount = last.amount.v
        /\ \A i \in 1..Len(read_before(last.sheet)) :
              read(last.sheet)[i] = read_before(last.sheet)[i]

\* C2: from empty storage and under appends only, the unfiltered monthly
\* summary of each ledger is the sum of the amounts appended to it.
C2_SummaryIsSumOfAppends ==
    (pc = "ready" /\ hist.onlyAppends) =>
        \A s \in SheetSet : get_monthly_summary(file, None)[s] = hist.sum[s]

\* C3: a delete at an index in range succeeds; the ledger read is one shorter,
\* the records before the index stay, the records after it move down by one,
\* and the other two ledgers read as before.
C3_DeleteShiftsDown ==
    (/\ last.op = "delete_entry"
     /\ last.sheet \in SheetSet
     /\ InRange(read_before(last.sheet), last.index)) =>
        /\ last.res = "True"
        /\ Len(read(last.sheet)) = Len(read_before(last.sheet)) - 1
        /\ \A j \in 1..Len(read_before(last.sheet)) :
              /\ j < last.index + 1 => read(last.sheet)[j] = read_before(last.sheet)[j]
              /\ j > last.index + 1 => read(last.sheet)[j - 1] = read_before(last.sheet)[j]
        /\ \A s \in SheetSet \ {last.sheet} : read(s) = read_before(s)

C3_Witness ==
    /\ last.op = "delete_entry"
    /\ last.res = "True"
    /\ last.sheet \in SheetSet
    /\ last.index = 0
    /\ Len(read_before(last.sheet)) = 2
    /\ read_before(last.sheet)[1] # read_before(last.sheet)[2]
    /\ \E s \in SheetSet \ {last.sheet} : read(s) # << >>

\* C4: a delete at an index out of bounds (negative, or at or past the length,
\* any index on an empty ledger) reports failure and leaves the workbook as
\* it was.
C4_DeleteOutOfRangeFails ==
    (/\ last.op = "delete_entry"
     /\ last.sheet \in SheetSet
     /\ ~InRange(read_before(last.sheet), last.index)) =>
        /\ last.res = "False"
        /\ file = last.pre

C4_Witness ==
    /\ last.op = "delete_entry"
    /\ last.res = "False"
    /\ last.index = -1
    /\ Len(read_before(last.sheet)) = 2

\* C5: a saved edit leaves at the index the new amount, category and notes with
\* the period it had, keeps every other record of the ledger, its length and
\* the other two ledgers; an edit at an index out of range is refused and
\* changes nothing.
C5_UpdateReplacesInPlace ==
    /\ (last.op = "save_changes" /\ last.res = "ok") =>
          /\ Len(read(last.sheet)) = Len(read_before(last.sheet))
          /\ \A i \in 1..Len(read_before(last.sheet)) :
                IF i = last.index + 1
                THEN /\ read(last.sheet)[i].Month = read_before(last.sheet)[i].Month
                     /\ read(last.sheet)[i].Amount = last.amount.v
                     /\ read(last.sheet)[i].Category = strip(last.category)
                     /\ read(last.sheet)[i].Notes = read_cell(last.notes)
                ELSE read(last.sheet)[i] = read_before(last.sheet)[i]
          /\ \A s \in SheetSet \ {last.sheet} : read(s) = read_before(s)
    /\ (/\ last.op = "edit_selected_entry"
        /\ last.sheet \in SheetSet
        /\ ~InRange(read_before(last.sheet), last.index)) =>
          /\ last.res = "error: edit"
          /\ file = last.pre

\* C6: the record an append stores reads back with a canonical year-month
\* period: the current month when no period was given, else the year-month
\* of the period given.
C6_AppendStoresCanonicalPeriod ==
    Appended =>
        LET stored == read(last.sheet)[Len(read(last.sheet))].Month
        IN /\ stored.k = "ym"
           /\ last.date = None => stored.m = now
           /\ last.date.k \in {"ym", "ymd"} => stored.m = last.date.m

\* C7: once the constructor has succeeded, the workbook holds all of Income,
\* Expenses and Savings in every state, whatever appends, deletes and edits
\* were made.
C7_AllLedgersPresent ==
    pc = "ready" => file.state = "ok" /\ SheetSet \subseteq sheet_names(file)

C7_Witness ==
    /\ pc = "ready"
    /\ last.op = "delete_entry"
    /\ last.res = "True"
    /\ ~hist.onlyAppends
    /\ nops = MaxOps

\* C8: a successful initialisation on absent storage leaves three empty
\* ledgers; on a workbook missing ledgers it adds exactly the missing ones,
\* empty, and every ledger that was present reads as before; on a workbook
\* with all three it changes nothing.
C8_InitializeAddsOnlyMissing ==
    (last.op = "init" /\ last.res = "ok") =>
        /\ last.pre.state = "absent" =>
              /\ sheet_names(file) = SheetSet
              /\ \A s \in SheetSet : read(s) = << >>
        /\ last.pre.state = "ok" =>
              /\ \A s \in SheetSet \ sheet_names(last.pre) :
                    s \in sheet_names(file) /\ read(s) = << >>
              /\ \A s \in SheetSet \cap sheet_names(last.pre) :
                    /\ s \in sheet_names(file)
                    /\ can_read(last.pre, s) => read(s) = read_before(s)
              /\ sheet_names(file) \cap SheetSet = SheetSet
              /\ sheet_names(file) \subseteq sheet_names(last.pre) \cup SheetSet
        /\ (last.pre.state = "ok" /\ SheetSet \subseteq sheet_names(last.pre)) =>
              file = last.pre

C8_Witness ==
    /\ last.op = "init"
    /\ last.res = "ok"
    /\ last.pre.state = "ok"
    /\ "Savings" \notin sheet_names(last.pre)
    /\ can_read(last.pre, "Expenses")
    /\ Len(read("Expenses")) = 2
    /\ read("Savings") = << >>

\* C9: an append to a name that is no ledger is refused as an invalid entry
\* type, and the workbook and the budgets stay as they were.
C9_InvalidLedgerRefused ==
    (last.op = "add_entry" /\ last.sheet \notin SheetSet) =>
        /\ last.res = "ValueError: entry type"
        /\ file = last.pre
        /\ budgets = last.preBudgets

C9_Witness ==
    /\ last.op = "add_entry"
    /\ last.sheet \notin SheetSet
    /\ last.res = "ValueError: entry type"
    /\ budgets # NoBudgets
    /\ \E s \in SheetSet : read(s) # << >>

\* C10: an append to a ledger is accepted exactly when float() takes the
\* amount: otherwise it fails and the workbook stays as it was; zero and
\* negative amounts are accepted and stored with their value.
C10_AmountAcceptedIffNumeric ==
    (last.op = "add_entry" /\ last.sheet \in SheetSet) =>
        /\ last.amount.k = "bad" =>
              last.res = "ValueError: adding entry" /\ file = last.pre
        /\ last.amount.k # "bad" =>
              /\ last.res = "True"
              /\ read(last.sheet)[Len(read(last.sheet))].Amount = last.amount.v

C10_Witness ==
    /\ Appended
    /\ last.amount.v < 0
    /\ read(last.sheet)[Len(read(last.sheet))].Amount < 0
    /\ \E s \in SheetSet : \E i \in 1..Len(read_before(s)) : read_before(s)[i].Amount = 0

\* C11: set_budget refuses an amount <= 0 and an empty category and leaves the
\* mapping unchanged, so every stored budget has a positive amount and a
\* non-empty category key.
C11_SetRejectsInvalid ==
    /\ (last.op = "set_budget" /\ (last.amount.v <= 0 \/ last.category = ""))
           => (last.res # "True" /\ budgets = last.preBudgets)
    /\ \A c \in DOMAIN budgets : budgets[c] > 0 /\ c # ""

\* C12: after a successful set_budget the mapping returned by
\* get_budget_status holds the amount under exactly the category text given,
\* has no other new key, and keeps every other entry; texts that differ in
\* case or surrounding blanks are different keys.
C12_SetStoresExactKey ==
    (last.op = "set_budget" /\ last.res = "True") =>
        LET st == get_budget_status(budgets) IN
        /\ ~st.none
        /\ DOMAIN st.budgets = DOMAIN last.preBudgets \cup {last.category}
        /\ st.budgets[last.category] = last.amount.v
        /\ \A c \in DOMAIN last.preBudgets \ {last.category} :
               st.budgets[c] = last.preBudgets[c]

C12_Witness ==
    /\ last.op = "set_budget" /\ last.res = "True"
    /\ last.category = " Rent "
    /\ {"Rent", "rent", " Rent "} \subseteq DOMAIN last.preBudgets
    /\ last.preBudgets[" Rent "] # last.amount.v
    /\ budgets["Rent"] # last.amount.v /\ budgets["rent"] # last.amount.v

\* C13: remove_budget succeeds, deletes exactly the given key when it is
\* present and keeps every other entry; on an absent key the mapping is
\* unchanged; removing the same key again changes nothing.
C13_RemoveExactKeyIdempotent ==
    last.op = "remove_budget" =>
        /\ last.res = "True"
        /\ DOMAIN budgets = DOMAIN last.preBudgets \ {last.category}
        /\ \A c \in DOMAIN budgets : budgets[c] = last.preBudgets[c]
        /\ last.category \notin DOMAIN last.preBudgets
               => budgets = last.preBudgets
        /\ remove_budget_map(budgets, last.category) = budgets

C13_Witness ==
    /\ last.op = "remove_budget" /\ last.res = "True"
    /\ last.category = "Rent"
    /\ "Rent" \in DOMAIN last.preBudgets
    /\ DOMAIN budgets = {"rent", " Rent "}

\* C14: get_budget_status returns the whole mapping when it has at least one
\* entry and None exactly when it has none, also after the last entry was
\* removed.
C14_StatusNoneIffEmpty ==
    pc = "ready" =>
        LET st == get_budget_status(budgets) IN
        /\ st.none <=> DOMAIN budgets = {}
        /\ ~st.none => st.budgets = budgets

C14_Witness ==
    /\ last.op = "remove_budget"
    /\ DOMAIN last.preBudgets = {last.category}
    /\ get_budget_status(last.preBudgets).budgets = last.preBudgets
    /\ get_budget_status(budgets).none

\* the month a stored record belongs to, and the records of the Expenses
\* ledger that a budget category covers in the current month
InMonth(r, m) == r.Month.k \in {"ym", "ymd"} /\ r.Month.m = m

Covers(category, r) ==
    r.Category # NaN /\ lower(strip(r.Category)) = lower(strip(category))

SpentNow(category) ==
    SumAmount(SelectSeq(read("Expenses"),
                        LAMBDA r : InMonth(r, now) /\ Covers(category, r)))

budget_status == show_budget_status(file, budgets, YM(now))

C16_OverBudgetIffSpentExceeds ==
    (pc = "ready" /\ budget_status.kind = "status") =>
        /\ \A c \in DOMAIN budgets :
               budget_status.lines[c].warning <=> SpentNow(c) > budgets[c]
        /\ ("Rent" \in DOMAIN budgets /\ budgets["Rent"] = 500) =>
               /\ SpentNow("Rent") = 400 =>
                      /\ budget_status.lines["Rent"].remaining = 100
                      /\ ~budget_status.lines["Rent"].warning
               /\ SpentNow("Rent") = 600 =>
                      /\ budget_status.lines["Rent"].remaining = -100
                      /\ budget_status.lines["Rent"].warning

C16_Witness ==
    /\ pc = "ready" /\ budget_status.kind = "status"
    /\ last.op = "add_entry" /\ last.res = "True"
    /\ "Rent" \in DOMAIN budgets /\ budgets["Rent"] = 500
    /\ \E i \in 1..Len(read("Expenses")) :
          /\ read("Expenses")[i].Amount = 1000
          /\ ~InMonth(read("Expenses")[i], now)
    /\ show_budget_status(last.pre, budgets, YM(now)).kind = "status"
    /\ show_budget_status(last.pre, budgets, YM(now)).lines["Rent"].remaining = 100
    /\ budget_status.lines["Rent"].remaining = -100
    /\ budget_status.lines["Rent"].warning

\* the records of the current month and the two months before it
InTrailingMonths(r) ==
    r.Month.k \in {"ym", "ymd"} /\ r.Month.m \in (now - 2)..now

trailing(ledger) == SelectSeq(read(ledger), InTrailingMonths)

trending(clock) == get_trending_categories(file, clock)

Listed(top) == {top[i].cat : i \in 1..Len(top)}

\* C17: only records of the trailing three months count towards the
\* trending categories: the records outside them (older, or later than the
\* current month) change neither the categories listed nor any total.
C17_OnlyTrailingMonthsContribute ==
    pc = "ready" =>
        \A clock \in Clocks, s \in SheetSet :
            ~trending(clock).raised =>
                trending(clock).top[s] = top_categories(trailing(s), clock)

\* C18: for each ledger at most 3 categories are listed, each with the sum
\* of its amounts in the trailing months, greatest sum first, and no
\* category of the trailing months that is left out has a greater sum than a
\* listed one.
C18_TopThreeByTrailingSum ==
    pc = "ready" =>
        \A clock \in Clocks, s \in SheetSet :
            ~trending(clock).raised =>
                LET top == trending(clock).top[s] IN
                /\ Len(top) <= 3
                /\ \A i \in 1..Len(top) :
                       top[i].total = category_total(trailing(s), top[i].cat)
                /\ \A i, j \in 1..Len(top) :
                       i < j => top[i].total >= top[j].total
                /\ \A c \in categories_of(trailing(s)) \ Listed(top) :
                       \A i \in 1..Len(top) :
                           category_total(trailing(s), c) <= top[i].total

\* the row at which a category first occurs among the rows that count
FirstRow(df, c) == CHOOSE i \in 1..Len(df) :
    df[i].Category = c /\ \A j \in 1..(i - 1) : df[j].Category # c

\* C19 as stated: of two categories with equal totals the one whose first
\* record was entered earlier is listed first, and it takes the last place
\* when only one of them fits.
C19_TiesRankByFirstEncounter ==
    pc = "ready" =>
        \A clock \in Clocks, s \in SheetSet :
            ~trending(clock).raised =>
                LET top == trending(clock).top[s]
                    df == recent_df(read(s), clock) IN
                /\ \A i, j \in 1..Len(top) :
                       (i < j /\ top[i].total = top[j].total)
                           => FirstRow(df, top[i].cat) < FirstRow(df, top[j].cat)
                /\ \A c \in categories_of(df) \ Listed(top) :
                       \A i \in 1..Len(top) :
                           category_total(df, c) = top[i].total
                               => FirstRow(df, top[i].cat) < FirstRow(df, c)

\* C19, amended: of two categories with equal totals, as the query computes
\* them, the one whose text sorts first is listed first, and it takes the
\* last place when only one of them fits.
C19_TiesRankByCategoryText ==
    pc = "ready" =>
        \A clock \in Clocks, s \in SheetSet :
            ~trending(clock).raised =>
                LET top == trending(clock).top[s]
                    df == recent_df(read(s), clock) IN
                /\ \A i, j \in 1..Len(top) :
                       (i < j /\ top[i].total = top[j].total)
                           => str_rank(top[i].cat) < str_rank(top[j].cat)
                /\ \A c \in categories_of(df) \ Listed(top) :
                       \A i \in 1..Len(top) :
                           /\ category_total(df, c) <= top[i].total
                           /\ category_total(df, c) = top[i].total
                                  => str_rank(top[i].cat) < str_rank(c)

C19_Witness ==
    /\ pc = "ready"
    /\ \A clock \in Clocks :
          /\ ~trending(clock).raised
          /\ trending(clock).top["Expenses"] =
                 <<[cat |-> "Gas", total |-> 7], [cat |-> "Bus", total |-> 5],
                   [cat |-> "Food", total |-> 5]>>
    /\ category_total(read("Expenses"), "Rent") = 5
    /\ read("Expenses")[1].Category = "Rent"

\* C20: for a given month the summary of each ledger is the sum of exactly
\* the stored records of that month (0 when there is none): every record of
\* the month counts and no record of another month does.
C20_SummaryOfMonth ==
    pc = "ready" =>
        \A m \in 1..MaxMonth, s \in SheetSet :
            get_monthly_summary(file, YM(m))[s] =
                SumAmount(SelectSeq(read(s), LAMBDA r : InMonth(r, m)))

\* the months in which a ledger has records, ascending, and of these the
\* last n with the sum of the records of each
RECURSIVE Ascending(_)
Ascending(S) ==
    IF S = {} THEN << >>
    ELSE LET m == CHOOSE m \in S : \A n \in S : m <= n
         IN <<m>> \o Ascending(S \ {m})

MonthsOf(ledger) ==
    {read(ledger)[i].Month.m :
        i \in {j \in 1..Len(read(ledger)) : read(ledger)[j].Month.k \in {"ym", "ymd"}}}

TrendOf(ledger, n) ==
    LET ms == tail(Ascending(MonthsOf(ledger)), n) IN
    [i \in 1..Len(ms) |->
        [Month |-> YM(ms[i]),
         Amount |-> SumAmount(SelectSeq(read(ledger), LAMBDA r : InMonth(r, ms[i])))]]

Periods(data) ==
    [i \in 1..Len(data) |->
        [Month |-> strftime_ym(data[i].Month), Amount |-> data[i].Amount]]

Windows == {1, 2}

\* C21: the trend of a ledger has one entry per month in which the ledger
\* has records, with the sum of the amounts of that month, months ascending,
\* only the last windowMonths of them (6 for get_sheet_data).
C21_TrendPerMonthAscending ==
    pc = "ready" =>
        \A s \in SheetSet :
            /\ Periods(get_sheet_data(file, s)) = TrendOf(s, 6)
            /\ \A w \in Windows :
                   ~visualize_monthly_data(file, s, w).raised =>
                       Periods(visualize_monthly_data(file, s, w).data) = TrendOf(s, w)

AnalyzeArgs == {"Rent", " RENT ", "rent", "Food"}

\* the rows of a ledger whose category is exactly the given text
Exactly(ledger, category) ==
    {i \in 1..Len(read(ledger)) : read(ledger)[i].Category = category}

\* C22: analyze_category reports exactly the ledgers that hold a record
\* whose category is the given text, character for character, each with
\* the sum of the amounts of those records and their mean (sum / count).
C22_AnalyzeExactCategory ==
    pc = "ready" =>
        \A c \in AnalyzeArgs :
            LET a == analyze_category(file, c) IN
            ~a.raised =>
                /\ DOMAIN a.report = {s \in SheetSet : Exactly(s, c) # {}}
                /\ \A s \in DOMAIN a.report :
                       /\ a.report[s].total =
                              SumAmount(SelectSeq(read(s), LAMBDA r : r.Category = c))
                       /\ a.report[s].mean =
                              [num |-> a.report[s].total,
                               den |-> Cardinality(Exactly(s, c))]

C22_Witness ==
    /\ pc = "ready"
    /\ ~analyze_category(file, "Rent").raised
    /\ DOMAIN analyze_category(file, "Rent").report = {"Income", "Expenses"}
    /\ analyze_category(file, "Rent").report["Expenses"].mean = [num |-> 1500, den |-> 3]
    /\ Exactly("Expenses", " RENT ") # {}
    /\ DOMAIN analyze_category(file, "rent").report = {}

QueryOps == {q[1] : q \in Queries}

\* what the query of a call returns on a workbook and a budget mapping
Answer(c, f, b, clock) ==
    CASE c.op = "get_monthly_summary" -> get_monthly_summary(f, c.date)
      [] c.op = "get_sheet_data" -> get_sheet_data(f, c.sheet)
      [] c.op = "get_all_categories" -> get_all_categories(f)
      [] c.op = "analyze_category" -> analyze_category(f, c.category)
      [] c.op = "get_trending_categories" -> get_trending_categories(f, clock)
      [] OTHER -> show_budget_status(f, b, YM(now))

C24_StoresIndependent ==
    /\ last.op \in {"set_budget", "remove_budget"} => file = last.pre
    /\ last.op \in {"add_entry", "delete_entry", "save_changes"}
           => budgets = last.preBudgets

C24_Witness ==
    /\ last.op = "delete_entry" /\ last.res = "True"
    /\ \E i \in 1..Len(read_excel(last.pre, "Expenses")) :
          read_excel(last.pre, "Expenses")[i].Category = "Rent"
    /\ \A s \in SheetSet : Exactly(s, "Rent") = {}
    /\ "Rent" \in DOMAIN budgets /\ budgets = last.preBudgets

\* C25: a successful add_entry or delete_entry on one ledger leaves each of
\* the other two with the same records in the same order, period, amount,
\* category and notes alike, empty notes included.
C25_RewriteKeepsOtherLedgers ==
    (last.op \in {"add_entry", "delete_entry"} /\ last.res = "True") =>
        \A s \in SheetSet \ {last.sheet} : read(s) = read_before(s)

\* the workbook a call leaves when it runs alone on the workbook f
Alone(k, f) ==
    IF k.op = "add_entry"
    THEN add_entry_call(f, k.sheet, k.amount, k.category, k.notes, k.date).file
    ELSE delete_entry_call(f, k.sheet, k.index).file

\* the caller whose write is the latest
LatestWriter(c) ==
    callers[c].pc = "returned" /\ callers[c].res = "True" /\ callers[c].wrote = nops

\* the other caller wrote between the reads and the write of c
Interleaved(c) == callers[c].overtaken /\ ~callers[c].mixed

\* d had written before c entered its call
Serialized(d, c) ==
    /\ callers[d].pc = "returned" /\ callers[d].res = "True"
    /\ callers[d].wrote <= callers[c].began

Grows(k, s) ==
    IF k.sheet # s THEN 0 ELSE IF k.op = "add_entry" THEN 1 ELSE -1

\* C26: when both callers have read the workbook before either writes, the
\* workbook after the second write is the one the second writer would have
\* left alone, with all three ledgers and without the first writer's change;
\* when one call has returned before the other begins, both changes are in
\* the workbook.
C26_LastWriterWins ==
    \A c \in CallerSet :
        LatestWriter(c) =>
            /\ Interleaved(c) =>
                   /\ file = Alone(callers[c], callers[c].base)
                   /\ sheet_names(file) = SheetSet
            /\ \A d \in CallerSet \ {c} :
                   Serialized(d, c) =>
                       \A s \in SheetSet :
                           Len(read(s)) = Len(read_excel(callers[d].base, s))
                                            + Grows(callers[d], s)
                                            + Grows(callers[c], s)

\* C27: after successful add_entry calls with any arguments, each ledger
\* holds as many records as successful appends were made to it: no append
\* empties or shortens a ledger.
C27_AppendNeverLosesRecords ==
    pc = "ready" => \A s \in SheetSet : Len(read(s)) = hist.cnt[s]

\* C28: a saved edit works on the ledger as it stands when Save is pressed:
\* the ledger keeps the length it has at that moment and every record but
\* the edited one, so a record appended since the dialog opened is still
\* there and a record deleted since then stays deleted.
C28_SaveKeepsLaterChanges ==
    (last.op = "save_changes" /\ last.res = "ok") =>
        /\ Len(read(last.sheet)) = Len(read_before(last.sheet))
        /\ \A i \in 1..Len(read_before(last.sheet)) :
               i # last.index + 1 =>
                   /\ i <= Len(read(last.sheet))
                   /\ read(last.sheet)[i] = read_before(last.sheet)[i]

\* an amount greater than 0; nan is not
Positive(v) == v # float_nan /\ v > 0

Rejected == last.res \in {"error: amount", "error: category", "error: budget"}

\* C29: through the window every stored record has an amount greater than 0
\* and a category text that is not empty, every budget an amount greater
\* than 0 and a key that is not empty, and an input that is turned down
\* leaves the workbook and the budgets as they were.
C29_ShellKeepsAmountsPositive ==
    pc = "ready" =>
        /\ \A s \in SheetSet : \A i \in 1..Len(file.sheets[s]) :
               /\ Positive(file.sheets[s][i].Amount)
               /\ file.sheets[s][i].Category # ""
        /\ \A c \in DOMAIN budgets : Positive(budgets[c]) /\ c # ""
        /\ Rejected => (file = last.pre /\ budgets = last.preBudgets)

\* the workbook found at construction cannot be read: its content is corrupt
\* or one of its ledgers fails to load
Unreadable(f) ==
    \/ f.state = "corrupt"
    \/ f.state = "ok" /\ \E s \in SheetSet \cap sheet_names(f) : ~can_read(f, s)

\* C30: initialization on a workbook that cannot be read raises, does not
\* replace the workbook with empty ledgers and drops no ledger that was
\* present.
C30_UnreadableStorageRefused ==
    (last.op = "init" /\ Unreadable(last.pre)) =>
        /\ last.res # "ok"
        /\ file.state = last.pre.state
        /\ last.pre.state = "ok" =>
               \A s \in SheetSet \cap sheet_names(last.pre) :
                   s \in sheet_names(file)

====
